---- MODULE Spec2Model ----
(***************************************************************************)
(* Model of mlflow/store/artifact/azure_data_lake_artifact_repo.py:        *)
(* _parse_abfss_uri and AzureDataLakeArtifactRepository.                   *)
(*                                                                         *)
(* A Python str is a sequence of one-character strings; None is the value  *)
(* None below where it is an argument, NoSize where it is a file size.     *)
(***************************************************************************)
EXTENDS Integers, Sequences, FiniteSets, TLC

VARIABLES
    uri,                      \* the artifact_uri given to the constructor
    parsed,                   \* the outcome of _parse_abfss_uri(uri)
    cwd,                      \* os.getcwd(), read by posixpath.relpath
    base_data_lake_directory, \* self.base_data_lake_directory
    timeout_env,              \* MLFLOW_ARTIFACT_UPLOAD_DOWNLOAD_TIMEOUT.get() at construction
    write_timeout,            \* self.write_timeout
    store,                    \* the backend filesystem: file name -> bytes
    response,                 \* what fs_client.get_paths returned to the last listing
    calls,                    \* the backend transfer calls of the last operation
    last                      \* the last public call: its arguments and its outcome

vars == <<uri, parsed, cwd, base_data_lake_directory, timeout_env, write_timeout,
          store, response, calls, last>>

(***************************************************************************)
(* Strings                                                                 *)
(***************************************************************************)

\* The characters of the model in code-point order (Python compares str by
\* code point).
Alphabet == <<".", "/", ":", "@", "A", "B", "F", "S",
              "a", "b", "c", "d", "e", "f", "g", "i", "l", "n", "o", "r",
              "s", "t", "v", "w", "x">>

Ord(c) == CHOOSE i \in 1..Len(Alphabet) : Alphabet[i] = c

\* str.lower, on the characters of the model.
Lower(c) ==
    CASE c = "A" -> "a"
      [] c = "B" -> "b"
      [] c = "F" -> "f"
      [] c = "S" -> "s"
      [] OTHER -> c

LowerStr(s) == [i \in 1..Len(s) |-> Lower(s[i])]

\* s[i:] with a 0-based i >= 0, as Python slices: empty past the end.
SliceFrom(s, i) == IF i >= Len(s) THEN <<>> ELSE SubSeq(s, i + 1, Len(s))

\* s[:i] with a 0-based i >= 0.
SliceTo(s, i) == IF i >= Len(s) THEN s ELSE SubSeq(s, 1, i)

startswith(s, p) == Len(p) <= Len(s) /\ SubSeq(s, 1, Len(p)) = p

endswith(s, p) == Len(p) <= Len(s) /\ SubSeq(s, Len(s) - Len(p) + 1, Len(s)) = p

\* s.find(c in cs, start): the 0-based index of the first character of s at or
\* after start that is in cs, or -1.
Find(s, cs, start) ==
    LET hits == {i \in (start + 1)..Len(s) : s[i] \in cs}
    IN  IF hits = {} THEN 0 - 1
        ELSE (CHOOSE i \in hits : \A j \in hits : i <= j) - 1

\* str < str and str <= str of Python: lexicographic on code points.
RECURSIVE StrLess(_, _)
StrLess(a, b) ==
    IF b = <<>> THEN FALSE
    ELSE IF a = <<>> THEN TRUE
    ELSE IF Ord(a[1]) # Ord(b[1]) THEN Ord(a[1]) < Ord(b[1])
    ELSE StrLess(Tail(a), Tail(b))

\* s.split("/")
RECURSIVE SplitSep(_)
RECURSIVE SplitAt(_, _)
SplitAt(s, i) ==
    IF i < 0 THEN <<s>> ELSE <<SliceTo(s, i)>> \o SplitSep(SliceFrom(s, i + 1))

SplitSep(s) == SplitAt(s, Find(s, {"/"}, 0))

\* "/".join(comps)
RECURSIVE JoinSep(_)
JoinSep(comps) ==
    IF comps = <<>> THEN <<>>
    ELSE IF Len(comps) = 1 THEN comps[1]
    ELSE comps[1] \o <<"/">> \o JoinSep(Tail(comps))

\* s.lstrip("/")
RECURSIVE LStripSep(_)
LStripSep(s) == IF s # <<>> /\ s[1] = "/" THEN LStripSep(Tail(s)) ELSE s

(***************************************************************************)
(* posixpath                                                               *)
(***************************************************************************)

\* posixpath.join(a, b)
posixpath_join(a, b) ==
    IF startswith(b, <<"/">>) THEN b
    ELSE IF a = <<>> \/ endswith(a, <<"/">>) THEN a \o b
    ELSE a \o <<"/">> \o b

\* The loop of posixpath.normpath over the components: "" and "." are dropped,
\* ".." pops a component unless there is none to pop.
RECURSIVE NormComps(_, _, _)
NormComps(comps, new_comps, initial_slashes) ==
    IF comps = <<>> THEN new_comps
    ELSE LET comp == comps[1]
             n == Len(new_comps)
         IN  IF comp = <<>> \/ comp = <<".">>
             THEN NormComps(Tail(comps), new_comps, initial_slashes)
             ELSE IF \/ comp # <<".", ".">>
                     \/ (initial_slashes = 0 /\ n = 0)
                     \/ (n > 0 /\ new_comps[n] = <<".", ".">>)
             THEN NormComps(Tail(comps), Append(new_comps, comp), initial_slashes)
             ELSE IF n > 0
             THEN NormComps(Tail(comps), SubSeq(new_comps, 1, n - 1), initial_slashes)
             ELSE NormComps(Tail(comps), new_comps, initial_slashes)

\* The initial slashes posixpath.normpath keeps: two when the path starts with
\* exactly two, else at most one.
InitialSlashes(path) ==
    IF ~startswith(path, <<"/">>) THEN 0
    ELSE IF startswith(path, <<"/", "/">>) /\ ~startswith(path, <<"/", "/", "/">>) THEN 2
    ELSE 1

\* path or dot
OrDot(path) == IF path = <<>> THEN <<".">> ELSE path

NormWith(path, initial_slashes) ==
    OrDot([i \in 1..initial_slashes |-> "/"]
          \o JoinSep(NormComps(SplitSep(path), <<>>, initial_slashes)))

\* posixpath.normpath
posixpath_normpath(path) ==
    IF path = <<>> THEN <<".">> ELSE NormWith(path, InitialSlashes(path))

\* posixpath.abspath, with os.getcwd() = wd
posixpath_abspath(path, wd) ==
    posixpath_normpath(IF startswith(path, <<"/">>) THEN path
                       ELSE posixpath_join(wd, path))

\* The length of the longest common prefix of two component lists.
RECURSIVE CommonLen(_, _)
CommonLen(a, b) ==
    IF a = <<>> \/ b = <<>> \/ a[1] # b[1] THEN 0
    ELSE 1 + CommonLen(Tail(a), Tail(b))

\* tail.split(sep) if tail else []
SplitTail(tail) == IF tail = <<>> THEN <<>> ELSE SplitSep(tail)

\* join(*rel_list), or curdir for an empty rel_list
JoinRel(rel_list) == IF rel_list = <<>> THEN <<".">> ELSE JoinSep(rel_list)

\* [pardir] * (len(start_list) - i) + path_list[i:]
RelList(start_list, path_list, i) ==
    [k \in 1..(Len(start_list) - i) |-> <<".", ".">>] \o SliceFrom(path_list, i)

RelOfLists(start_list, path_list) ==
    JoinRel(RelList(start_list, path_list, CommonLen(start_list, path_list)))

\* posixpath.relpath(path, start) for a non-empty path, with os.getcwd() = wd
posixpath_relpath(path, start, wd) ==
    RelOfLists(SplitTail(LStripSep(posixpath_abspath(start, wd))),
               SplitTail(LStripSep(posixpath_abspath(path, wd))))

\* posixpath.dirname
\* p.rfind("/") + 1
AfterLastSep(p) ==
    IF \A k \in 1..Len(p) : p[k] # "/" THEN 0
    ELSE CHOOSE k \in 1..Len(p) : p[k] = "/" /\ \A j \in (k + 1)..Len(p) : p[j] # "/"

\* s.rstrip("/")
RECURSIVE RStripSep(_)
RStripSep(s) ==
    IF s # <<>> /\ s[Len(s)] = "/" THEN RStripSep(SubSeq(s, 1, Len(s) - 1)) ELSE s

\* if head and head != sep * len(head): head = head.rstrip(sep)
DirHead(head) ==
    IF head # <<>> /\ head # [k \in 1..Len(head) |-> "/"] THEN RStripSep(head) ELSE head

posixpath_dirname(p) == DirHead(SliceTo(p, AfterLastSep(p)))

posixpath_basename(p) == SliceFrom(p, AfterLastSep(p))

(***************************************************************************)
(* _parse_abfss_uri                                                        *)
(***************************************************************************)

None == [some |-> FALSE, val |-> <<>>]

Some(s) == [some |-> TRUE, val |-> s]

\* The characters urllib.parse accepts in a scheme, among those of the model.
scheme_chars == {".", "A", "B", "F", "S", "a", "b", "c", "d", "e", "f", "g", "i",
                 "l", "n", "o", "r", "s", "t", "v", "w", "x"}

\* urllib.parse.urlparse(u), for a u without "?", "#" and ";": the scheme is
\* what precedes the first ":" when it is made of scheme characters, the netloc
\* what follows "//" up to the next "/", the path the rest.
urlparse(u) ==
    LET i == Find(u, {":"}, 0)
        has_scheme == i > 0 /\ \A k \in 1..i : u[k] \in scheme_chars
        scheme == IF has_scheme THEN LowerStr(SliceTo(u, i)) ELSE <<>>
        url == IF has_scheme THEN SliceFrom(u, i + 1) ELSE u
        has_netloc == startswith(url, <<"/", "/">>)
        wdelim == Find(url, {"/"}, 2)
        delim == IF wdelim >= 0 THEN wdelim ELSE Len(url)
    IN  [scheme |-> scheme,
         netloc |-> IF has_netloc THEN SubSeq(url, 3, delim) ELSE <<>>,
         path |-> IF has_netloc THEN SliceFrom(url, delim) ELSE url]

abfss == <<"a", "b", "f", "s", "s">>

\* ".dfs.core.windows.net", the literal the pattern ends with
dfs_core_windows_net ==
    <<".", "d", "f", "s", ".", "c", "o", "r", "e", ".",
      "w", "i", "n", "d", "o", "w", "s", ".", "n", "e", "t">>

\* re.match(r"([^@]+)@([^.]+)\.dfs\.core\.windows\.net", netloc): the pattern is
\* anchored at the start of netloc only. Group 1 is greedy and must be followed
\* by "@", so it ends at the first "@"; group 2 is greedy and must be followed
\* by ".", so it ends at the first "." after that "@"; both are non-empty.
re_match(netloc) ==
    LET at == Find(netloc, {"@"}, 0)
        dot == IF at < 0 THEN 0 - 1 ELSE Find(netloc, {"."}, at + 1)
        matched == /\ at >= 1
                   /\ dot >= at + 2
                   /\ startswith(SliceFrom(netloc, dot), dfs_core_windows_net)
    IN  [matched |-> matched,
         group1 |-> IF matched THEN SliceTo(netloc, at) ELSE <<>>,
         group2 |-> IF matched THEN SubSeq(netloc, at + 2, dot) ELSE <<>>]

\* What _parse_abfss_uri raises or returns.
Raised(message) ==
    [ok |-> FALSE, error |-> message, filesystem |-> <<>>, account_name |-> <<>>,
     path |-> <<>>]

Returned(filesystem, account_name, path) ==
    [ok |-> TRUE, error |-> "", filesystem |-> filesystem,
     account_name |-> account_name, path |-> path]

\* _parse_abfss_uri, given urlparse(uri) and the match of its netloc.
ParseOutcome(p, match) ==
    IF p.scheme # abfss THEN Raised("Not an ABFSS URI")
    ELSE IF ~match.matched THEN Raised("ABFSS URI must be of the form")
    ELSE Returned(match.group1, match.group2,
                  IF startswith(p.path, <<"/">>) THEN SliceFrom(p.path, 1)
                  ELSE p.path)

ParseParsed(p) == ParseOutcome(p, re_match(p.netloc))

_parse_abfss_uri(u) == ParseParsed(urlparse(u))

(***************************************************************************)
(* The backend: a hierarchical filesystem of files, reached through        *)
(* fs_client. Directories are the prefixes of the file names.              *)
(***************************************************************************)

\* The name the filesystem knows a requested path by: its components from the
\* filesystem root, without empty and "." components and with ".." resolved.
resolve(path) == JoinSep(NormComps(SplitSep(path), <<>>, 1))

PathProperties(name, is_directory, content_length) ==
    [name |-> name, is_directory |-> is_directory, content_length |-> content_length]

\* The name a file has below the directory dir, or dir's own name.
IsUnder(name, dir) == dir = <<>> \/ startswith(name, dir \o <<"/">>)

\* The child of directory dir on the way to the file called name.
ChildOf(name, dir) ==
    IF dir = <<>> THEN SplitSep(name)[1]
    ELSE dir \o <<"/">> \o SplitSep(SliceFrom(name, Len(dir) + 1))[1]

\* fs_client.get_paths(path, recursive=False), as a set: a file is listed as
\* itself, a directory as its children one level down, never as its own child.
\* The entry a listing of a directory shows for the file called name below it.
EntryFor(st, name, child) ==
    IF child = name THEN PathProperties(child, FALSE, Len(st[name]))
    ELSE PathProperties(child, TRUE, 0)

Listing(st, dir) ==
    IF dir \in DOMAIN st
    THEN {PathProperties(dir, FALSE, Len(st[dir]))}
    ELSE {EntryFor(st, name, ChildOf(name, dir)) :
              name \in {n \in DOMAIN st : IsUnder(n, dir)}}

get_paths(st, path) == Listing(st, resolve(path))

\* The entries of a listing as the service returns them: in the order of
\* their names.
FirstByName(S) == CHOOSE x \in S : \A y \in S \ {x} : StrLess(x.name, y.name)

RECURSIVE InNameOrder(_)
RECURSIVE NameOrderFrom(_, _)
NameOrderFrom(S, e) == <<e>> \o InNameOrder(S \ {e})

InNameOrder(S) == IF S = {} THEN <<>> ELSE NameOrderFrom(S, FirstByName(S))

\* dir_client.get_file_client(file): the file's path is the directory client's
\* path, "/" and file.
get_file_client(path_name, file) == resolve(path_name \o <<"/">> \o file)

NotPassed == [passed |-> FALSE, value |-> 0]

Passed(t) == [passed |-> TRUE, value |-> t]

Call(method, name, timeout) == [method |-> method, name |-> name, timeout |-> timeout]

\* What an operation has done so far: the filesystem, "ok" or the error raised,
\* and the transfer calls made.
Outcome(st, status, cs) == [store |-> st, status |-> status, calls |-> cs]

\* file_client.create_file(): the file exists afterwards and is empty.
create_file(r, name) ==
    IF r.status # "ok" THEN r
    ELSE Outcome((name :> <<>>) @@ r.store, "ok",
                 r.calls \union {Call("create_file", name, NotPassed)})

\* file_client.upload_data(data, overwrite, timeout): an existing file is
\* replaced when overwrite is set and is an error otherwise.
upload_data(r, name, data, overwrite, timeout) ==
    IF r.status # "ok" THEN r
    ELSE IF name \in DOMAIN r.store /\ ~overwrite
    THEN Outcome(r.store, "ResourceExistsError",
                 r.calls \union {Call("upload_data", name, timeout)})
    ELSE Outcome((name :> data) @@ r.store, "ok",
                 r.calls \union {Call("upload_data", name, timeout)})

(***************************************************************************)
(* AzureDataLakeArtifactRepository                                         *)
(***************************************************************************)

_DEFAULT_TIMEOUT == 600

NoInt == [some |-> FALSE, val |-> 0]

SomeInt(n) == [some |-> TRUE, val |-> n]

\* MLFLOW_ARTIFACT_UPLOAD_DOWNLOAD_TIMEOUT.get() or _DEFAULT_TIMEOUT: None and
\* 0 are falsy.
resolve_timeout(env) == IF env.some /\ env.val # 0 THEN env.val ELSE _DEFAULT_TIMEOUT

\* "if path:" of Python: None and "" are falsy.
Truthy(path) == path.some /\ path.val # <<>>

log_artifact(local_file, artifact_path) == "NotImplementedError"

\* A delete_artifacts that does nothing when it is given no path.
delete_artifacts_silent(artifact_path) ==
    IF Truthy(artifact_path) THEN "NotImplementedError" ELSE "ok"

delete_artifacts(artifact_path) == "NotImplementedError"

\* dest_path of log_artifacts
dest_path_of(base, artifact_path) ==
    IF Truthy(artifact_path) THEN posixpath_join(base, artifact_path.val) ELSE base

\* os.path.relpath(root, local_dir) for the directory os.walk found the file
\* in: "." for local_dir itself.
rel_path_of(file) == OrDot(posixpath_dirname(file))

\* A log_artifacts that forgets the directory os.walk found the file in.
file_path_flat(file) == posixpath_basename(file)

\* The path log_artifacts asks the directory client for:
\* posixpath.join(rel_path, f).
file_path_of(file) == posixpath_join(rel_path_of(file), posixpath_basename(file))

\* The body of the loop of log_artifacts for one file: an empty file is
\* created, any other is uploaded over what is there.
\* A log_artifacts that uploads with overwrite=False.
upload_to_no_overwrite(r, name, data) ==
    IF Len(data) = 0 THEN create_file(r, name)
    ELSE upload_data(r, name, data, FALSE, NotPassed)

upload_to(r, name, data) ==
    IF Len(data) = 0 THEN create_file(r, name)
    ELSE upload_data(r, name, data, TRUE, NotPassed)

upload_file(r, dest_path, file, data) ==
    upload_to(r, get_file_client(dest_path, file_path_of(file)), data)

\* The files of a local directory in an order os.walk may yield them: those of
\* a directory before those of its subdirectories.
Depth(f) == Cardinality({k \in 1..Len(f) : f[k] = "/"})

WalkBefore(f, g) == Depth(f) < Depth(g) \/ (Depth(f) = Depth(g) /\ StrLess(f, g))

WalkFirst(files) == CHOOSE x \in files : \A y \in files \ {x} : WalkBefore(x, y)

RECURSIVE walk_upload(_, _, _, _)
RECURSIVE walk_from(_, _, _, _, _)
walk_from(r, dest_path, local, files, f) ==
    walk_upload(upload_file(r, dest_path, f, local[f]), dest_path, local, files \ {f})

walk_upload(r, dest_path, local, files) ==
    IF files = {} THEN r ELSE walk_from(r, dest_path, local, files, WalkFirst(files))

\* log_artifacts(local_dir, artifact_path) on the filesystem st; local maps the
\* files below local_dir, by their path from it, to their bytes.
log_artifacts(st, base, local, artifact_path) ==
    walk_upload(Outcome(st, "ok", {}), dest_path_of(base, artifact_path), local,
                DOMAIN local)

\* directory_to_list of list_artifacts
directory_to_list_of(base, path) ==
    IF Truthy(path) THEN posixpath_join(base, path.val) ELSE base

NoSize == 0 - 1

FileInfo(path, is_dir, file_size) ==
    [path |-> path, is_dir |-> is_dir, file_size |-> file_size]

\* The FileInfo list_artifacts makes of one entry of the backend.
info_with(result, rel) ==
    IF result.is_directory
    THEN FileInfo(IF endswith(rel, <<"/">>) THEN SubSeq(rel, 1, Len(rel) - 1) ELSE rel,
                  TRUE, NoSize)
    ELSE FileInfo(rel, FALSE, result.content_length)

info_of(result, base, wd) == info_with(result, posixpath_relpath(result.name, base, wd))

\* The loop of list_artifacts: the entry named as the listed directory is
\* skipped.
RECURSIVE collect_infos(_, _, _, _)
collect_infos(results, directory_to_list, base, wd) ==
    IF results = <<>> THEN <<>>
    ELSE IF directory_to_list = results[1].name
    THEN collect_infos(Tail(results), directory_to_list, base, wd)
    ELSE <<info_of(results[1], base, wd)>>
         \o collect_infos(Tail(results), directory_to_list, base, wd)

\* sorted(infos, key=lambda f: f.path): a stable sort.
RECURSIVE insert_sorted(_, _)
insert_sorted(sorted_infos, info) ==
    IF sorted_infos = <<>> THEN <<info>>
    ELSE IF StrLess(info.path, sorted_infos[1].path)
    THEN <<info>> \o sorted_infos
    ELSE <<sorted_infos[1]>> \o insert_sorted(Tail(sorted_infos), info)

RECURSIVE sort_prefix(_, _)
sort_prefix(infos, n) ==
    IF n = 0 THEN <<>> ELSE insert_sorted(sort_prefix(infos, n - 1), infos[n])

\* A list_artifacts that returns the entries in the order of the backend.
unsorted(infos) == infos

sorted_by_path(infos) == sort_prefix(infos, Len(infos))

\* list_artifacts(path), given what fs_client.get_paths returned.
\* The end of list_artifacts: a single file entry whose path is rel_path is
\* the listed path itself, a file, which has no children.
list_result(infos, rel_path) ==
    IF Len(infos) = 1 /\ ~infos[1].is_dir /\ infos[1].path = rel_path
    THEN <<>>
    ELSE sorted_by_path(infos)

list_directory(base, directory_to_list, results, wd) ==
    list_result(collect_infos(results, directory_to_list, base, wd),
                SliceFrom(directory_to_list, Len(base) + 1))

list_artifacts(base, path, results, wd) ==
    list_directory(base, directory_to_list_of(base, path), results, wd)

\* file_client.download_file().readinto(file): the bytes read, or the error
\* of a file that is not there.
download_file(st, name, timeout) ==
    IF name \in DOMAIN st
    THEN [data |-> st[name], status |-> "ok",
          calls |-> {Call("download_file", name, timeout)}]
    ELSE [data |-> <<>>, status |-> "ResourceNotFoundError",
          calls |-> {Call("download_file", name, timeout)}]

download_full_path(st, remote_full_path) ==
    download_file(st,
                  get_file_client(posixpath_dirname(remote_full_path),
                                  posixpath_basename(remote_full_path)),
                  NotPassed)

\* _download_file(remote_file_path, local_path): the bytes written to
\* local_path, which open(local_path, "wb") has emptied before the backend is
\* asked.
_download_file(st, base, remote_file_path) ==
    download_full_path(st, posixpath_join(base, remote_file_path))

(***************************************************************************)
(* Inputs                                                                  *)
(***************************************************************************)

\* "abfss://fs@ac.dfs.core.windows.net", a well-formed location without path
Location ==
    abfss \o <<":", "/", "/", "f", "s", "@", "a", "c">> \o dfs_core_windows_net

\* The artifact URIs repositories are constructed with: no path, a path, a path
\* ending in "/", a path starting with "//".
RepoURIs ==
    {Location,
     Location \o <<"/", "r">>,
     Location \o <<"/", "r", "/">>,
     Location \o <<"/", "/", "r">>}

Cwds == {<<"/">>, <<"/", "w">>}

EnvTimeouts == {NoInt, SomeInt(0), SomeInt(30)}

\* Local directories, by the paths of their files: a zero-byte file, a
\* non-empty file and a file in a subdirectory; the first two with the sizes
\* exchanged.
LocalDirs ==
    << (<<"f">> :> <<>>) @@ (<<"g">> :> <<7, 8>>) @@ (<<"s", "/", "g">> :> <<7>>),
       (<<"f">> :> <<7>>) @@ (<<"g">> :> <<>>) >>

UploadPaths == {None, Some(<<>>), Some(<<"d">>)}

ListPaths ==
    UploadPaths \union {Some(<<"d", "/">>), Some(<<"f">>), Some(<<"d", "/", "f">>),
                        Some(<<"s">>)}

DownloadPaths == {<<"f">>, <<"d", "/", "s", "/", "g">>, <<"x">>}

LocalFiles == {Some(<<"f">>), None}

(***************************************************************************)
(* The repository: a constructed instance and its public calls             *)
(***************************************************************************)

LastCall(op, path, local_dir, status, infos, data, replaced) ==
    [op |-> op, path |-> path, local_dir |-> local_dir, status |-> status,
     infos |-> infos, data |-> data, replaced |-> replaced]

NoCall == LastCall("__init__", None, 0, "ok", <<>>, <<>>, {})

\* __init__(artifact_uri, credential) has returned.
Init ==
    /\ uri \in RepoURIs
    /\ parsed = _parse_abfss_uri(uri)
    /\ parsed.ok
    /\ cwd \in Cwds
    /\ timeout_env \in EnvTimeouts
    /\ write_timeout = resolve_timeout(timeout_env)
    /\ base_data_lake_directory = parsed.path
    /\ store = <<>>
    /\ response = <<>>
    /\ calls = {}
    /\ last = NoCall

fixed == <<uri, parsed, cwd, base_data_lake_directory, timeout_env, write_timeout>>

\* The files a call of log_artifacts finds at its destinations with other bytes
\* than the local ones.
Replaced(st, local, dest_path) ==
    {n \in DOMAIN st :
        \E f \in DOMAIN local :
            n = get_file_client(dest_path, file_path_of(f)) /\ st[n] # local[f]}

LogArtifactsDone(d, artifact_path, r, replaced) ==
    /\ store' = r.store
    /\ calls' = r.calls
    /\ response' = <<>>
    /\ last' = LastCall("log_artifacts", artifact_path, d, r.status, <<>>, <<>>, replaced)
    /\ UNCHANGED fixed

LogArtifacts ==
    \E d \in 1..Len(LocalDirs), artifact_path \in UploadPaths :
        LogArtifactsDone(d, artifact_path,
                         log_artifacts(store, base_data_lake_directory, LocalDirs[d],
                                       artifact_path),
                         Replaced(store, LocalDirs[d],
                                  dest_path_of(base_data_lake_directory, artifact_path)))

ListArtifactsDone(path, results) ==
    /\ response' = results
    /\ calls' = {}
    /\ last' = LastCall("list_artifacts", path, 0, "ok",
                        list_artifacts(base_data_lake_directory, path, results, cwd),
                        <<>>, {})
    /\ UNCHANGED <<fixed, store>>

ListArtifacts ==
    \E path \in ListPaths :
        ListArtifactsDone(path,
                          InNameOrder(get_paths(store,
                              directory_to_list_of(base_data_lake_directory, path))))

DownloadFileDone(remote_file_path, r) ==
    /\ calls' = r.calls
    /\ response' = <<>>
    /\ last' = LastCall("_download_file", Some(remote_file_path), 0, r.status, <<>>,
                        r.data, {})
    /\ UNCHANGED <<fixed, store>>

DownloadFile ==
    \E remote_file_path \in DownloadPaths :
        DownloadFileDone(remote_file_path,
                         _download_file(store, base_data_lake_directory, remote_file_path))

LogArtifact ==
    \E local_file \in LocalFiles, artifact_path \in UploadPaths :
        /\ calls' = {}
        /\ response' = <<>>
        /\ last' = LastCall("log_artifact", artifact_path, 0,
                            log_artifact(local_file, artifact_path), <<>>, <<>>, {})
        /\ UNCHANGED <<fixed, store>>

DeleteArtifacts ==
    \E artifact_path \in UploadPaths :
        /\ calls' = {}
        /\ response' = <<>>
        /\ last' = LastCall("delete_artifacts", artifact_path, 0,
                            delete_artifacts(artifact_path), <<>>, <<>>, {})
        /\ UNCHANGED <<fixed, store>>

Next == LogArtifacts \/ ListArtifacts \/ DownloadFile \/ LogArtifact \/ DeleteArtifacts

Spec == Init /\ [][Next]_vars

(***************************************************************************)
(* _parse_abfss_uri alone, on well-formed and malformed URIs               *)
(***************************************************************************)

Schemes == {abfss, <<"a", "b", "f", "s">>, <<"A", "B", "F", "S", "S">>}

\* ".blob.core.windows.net", the domain of another service
blob_core_windows_net ==
    <<".", "b", "l", "o", "b", ".", "c", "o", "r", "e", ".",
      "w", "i", "n", "d", "o", "w", "s", ".", "n", "e", "t">>

\* Authorities: a filesystem or none, "@" or none, an account (none, plain,
\* dotted), a domain (the right one, another, none) and what may follow it.
Netlocs ==
    {filesystem \o at \o account \o domain \o trailer :
        filesystem \in {<<>>, <<"f", "s">>},
        at \in {<<>>, <<"@">>},
        account \in {<<>>, <<"a", "c">>, <<"a", ".", "c">>},
        domain \in {dfs_core_windows_net, blob_core_windows_net, <<>>},
        trailer \in {<<>>, <<".", "e", "v", "i", "l">>, <<"x">>}}

UriPaths == {<<>>, <<"/", "r">>, <<"/", "/", "r">>, <<"/", "r", "/", "s">>}

AllURIs ==
    {scheme \o <<":", "/", "/">> \o netloc \o path :
        scheme \in Schemes, netloc \in Netlocs, path \in UriPaths}

NotParsed == Raised("not parsed")

InitParse ==
    /\ uri \in AllURIs
    /\ parsed = NotParsed
    /\ cwd = <<"/">>
    /\ timeout_env = NoInt
    /\ write_timeout = resolve_timeout(NoInt)
    /\ base_data_lake_directory = <<>>
    /\ store = <<>>
    /\ response = <<>>
    /\ calls = {}
    /\ last = NoCall

Parse ==
    /\ parsed = NotParsed
    /\ parsed' = _parse_abfss_uri(uri)
    /\ UNCHANGED <<uri, cwd, base_data_lake_directory, timeout_env, write_timeout, store,
                   response, calls, last>>

SpecParse == InitParse /\ [][Parse]_vars

(***************************************************************************)
(* list_artifacts alone, on whatever a backend may return                  *)
(***************************************************************************)

MaxEntries == 2

EntryNames ==
    {<<"r">>, <<"r", "/", "d">>, <<"r", "/", "d", "/">>, <<"r", "/", "d", "/", "a">>,
     <<"r", "/", "a">>, <<"d">>, <<"a">>}

Entries ==
    {PathProperties(name, TRUE, 0) : name \in EntryNames}
    \union {PathProperties(name, FALSE, 42) : name \in EntryNames}

Responses == UNION {[1..n -> Entries] : n \in 0..MaxEntries}

InitList == Init /\ timeout_env = NoInt

\* One call on a fresh repository: a later call reads nothing an earlier one
\* wrote.
ListAny ==
    /\ last = NoCall
    /\ \E path \in ListPaths, results \in Responses : ListArtifactsDone(path, results)

SpecList == InitList /\ [][ListAny]_vars

(***************************************************************************)
(* Properties                                                              *)
(***************************************************************************)

base == base_data_lake_directory

Listed == last.op = "list_artifacts"

InfoSet == {last.infos[i] : i \in 1..Len(last.infos)}

\* The directory the last listing asked the backend for.
Target == directory_to_list_of(base, last.path)

\* C1: whatever the backend returns, a directory entry of it that names the
\* listed directory itself leaves no entry in the result of list_artifacts;
\* stated here for the base paths without a leading slash.
C1_SelfEntryDiscarded ==
    (Listed /\ ~startswith(base, <<"/">>)) =>
        \A k \in 1..Len(response) :
            (response[k].is_directory /\ resolve(response[k].name) = resolve(Target))
                => info_of(response[k], base, cwd) \notin InfoSet

\* C2: list_artifacts of a path that is a file of the backend returns the empty
\* list, for every base path.
C2_SingleFileListsEmpty ==
    (Listed /\ resolve(Target) \in DOMAIN store) => last.infos = <<>>

\* What list_artifacts(path) returns on the present filesystem.
ListingOf(path) ==
    list_artifacts(base, path, InNameOrder(get_paths(store, directory_to_list_of(base, path))),
                   cwd)

\* C3: every entry list_artifacts returns has a path without trailing slash
\* that, joined to the base path, is the name the backend gave the entry; a
\* returned directory path given back to list_artifacts lists that directory.
C3_PathsRelativeToBase ==
    Listed =>
        \A info \in InfoSet :
            /\ ~endswith(info.path, <<"/">>)
            /\ \E k \in 1..Len(response) :
                   /\ response[k].name = resolve(posixpath_join(base, info.path))
                   /\ response[k].is_directory = info.is_dir
                   /\ info.is_dir =>
                          get_paths(store, directory_to_list_of(base, Some(info.path)))
                              = get_paths(store, response[k].name)

\* The local directory and the destination root of the last log_artifacts.
Uploaded == last.op = "log_artifacts" /\ last.status = "ok"

LocalDir == LocalDirs[last.local_dir]

DestRoot == IF Truthy(last.path) THEN posixpath_join(base, last.path.val) ELSE base

\* The files directly in the local directory.
TopLevel == {f \in DOMAIN LocalDir : \A k \in 1..Len(f) : f[k] # "/"}

C5_ReuploadIdempotent ==
    last.op = "log_artifacts" =>
        /\ last.status = "ok"
        /\ \A f \in DOMAIN LocalDir : store[resolve(posixpath_join(DestRoot, f))] = LocalDir[f]
        /\ log_artifacts(store, base, LocalDir, last.path).status = "ok"
        /\ log_artifacts(store, base, LocalDir, last.path).store = store

\* An upload has replaced a non-empty file by an empty one and a file by a
\* non-empty one.
C5_Witness ==
    /\ Uploaded
    /\ \E n \in last.replaced : store[n] = <<>>
    /\ \E n \in last.replaced : store[n] # <<>>

\* C6: log_artifact and delete_artifacts raise NotImplementedError, whatever
\* their arguments and whatever has been uploaded, listed or downloaded.
C6_Unsupported ==
    last.op \in {"log_artifact", "delete_artifacts"} => last.status = "NotImplementedError"

\* delete_artifacts without a path has been called on a filled backend.
C6_Witness ==
    /\ last.op = "delete_artifacts"
    /\ ~last.path.some
    /\ store # <<>>

\* The whole authority is <filesystem>@<account>.dfs.core.windows.net: a
\* filesystem without "@", an account without ".", nothing after the domain.
WholeAuthority(netloc) ==
    \E at \in 2..Len(netloc) :
        /\ netloc[at] = "@"
        /\ \A k \in 1..(at - 1) : netloc[k] # "@"
        /\ Len(netloc) - at > Len(dfs_core_windows_net)
        /\ endswith(netloc, dfs_core_windows_net)
        /\ \A k \in (at + 1)..(Len(netloc) - Len(dfs_core_windows_net)) : netloc[k] # "."

\* C7: _parse_abfss_uri returns a location only for the scheme abfss and an
\* authority that is as a whole <filesystem>@<account>.dfs.core.windows.net;
\* it raises the scheme error for another scheme and the authority error for
\* another authority.
C7_OnlyWholeAuthority ==
    parsed # NotParsed =>
        /\ parsed.ok <=> (urlparse(uri).scheme = abfss /\ WholeAuthority(urlparse(uri).netloc))
        /\ urlparse(uri).scheme # abfss => parsed.error = "Not an ABFSS URI"
        /\ (urlparse(uri).scheme = abfss /\ ~WholeAuthority(urlparse(uri).netloc))
               => parsed.error = "ABFSS URI must be of the form"

\* C8: the base path of a constructed repository is the parsed path, has no
\* leading slash and is never changed.
C8_NoLeadingSlash ==
    /\ base = parsed.path
    /\ ~startswith(base, <<"/">>)

\* C10: write_timeout is the configured timeout, or 600 when that is unset or
\* not positive, and every transfer call to the backend is given it.
C10_TimeoutApplied ==
    /\ write_timeout = IF timeout_env.some /\ timeout_env.val > 0 THEN timeout_env.val
                       ELSE _DEFAULT_TIMEOUT
    /\ \A c \in calls :
           c.method \in {"upload_data", "download_file"} => c.timeout = Passed(write_timeout)

\* C9: whatever the backend returns and in whatever order, the result of
\* list_artifacts is in ascending order of the paths.
C9_Sorted ==
    Listed =>
        \A i, j \in 1..Len(last.infos) :
            i < j => ~StrLess(last.infos[j].path, last.infos[i].path)

\* The backend has returned two entries in descending order of their paths and
\* both are in the result.
C9_Witness ==
    /\ Listed
    /\ Len(response) = 2
    /\ Len(last.infos) = 2
    /\ StrLess(info_of(response[2], base, cwd).path, info_of(response[1], base, cwd).path)

====
